---- MODULE Spec2Model ----
(***************************************************************************)
(* A model of the josestg blog: the three GitHub stats handlers            *)
(* (pages/api/github), the markdown renderer (libs/md2html-parser), the    *)
(* slug derivation, and the content loaders of the index page and of the   *)
(* per-item page (getStaticProps, getStaticPaths).                         *)
(***************************************************************************)
EXTENDS Integers, Sequences, FiniteSets, TLC

VARIABLES
    pc,         \* stats: position of each handler invocation
    kind,       \* stats: which handler the invocation runs
    upstream,   \* stats: what the upstream API answered to the invocation
    requests,   \* stats: the outbound requests issued so far, in order
    res,        \* stats: the NextApiResponse of each invocation
    log,        \* stats: what each invocation did, in order
    md,         \* renderer: the markdown body handed to parse()
    stage,      \* renderer: index of the next plugin to run (0: not called)
    tree,       \* renderer: the document between two plugins
    ran,        \* renderer: the plugins run so far, in order
    html,       \* renderer: the string parse() returned
    filename,   \* slug: a content file's name
    slug,       \* slug: the slug derived from filename
    reslug,     \* slug: the slug derived from slug
    dir,        \* content: the listing of the content directory, in order
    files,      \* content: the file behind each name of the directory
    indexPc,    \* index loader: its position
    indexData,  \* index loader: the metadata mapped so far
    indexProps, \* index loader: the props it returned
    paths,      \* getStaticPaths: what it returned
    itemPc,     \* per-item loader: its position
    itemSlug,   \* per-item loader: ctx.params.slug
    itemRaw,    \* per-item loader: rawMarkdown
    itemSplit,  \* per-item loader: what grayMatter returned
    itemMeta,   \* per-item loader: metadata
    itemProps,  \* per-item loader: the props it returned
    calls,      \* per-item loader: the calls it made, in order
    req,        \* stats: the incoming request of each invocation
    history,    \* navbar: the pathnames the router showed, the current one last
    pending,    \* navbar: the route change under way
    landed      \* navbar: the route change that completed last

statsVars == <<pc, kind, upstream, requests, res, log, req>>
navVars == <<history, pending, landed>>
renderVars == <<md, stage, tree, ran, html>>
slugVars == <<filename, slug, reslug>>
contentVars == <<dir, files, indexPc, indexData, indexProps, paths, itemPc,
                 itemSlug, itemRaw, itemSplit, itemMeta, itemProps, calls>>
vars == <<pc, kind, upstream, requests, res, log, md, stage, tree, ran, html,
          filename, slug, reslug, dir, files, indexPc, indexData, indexProps,
          paths, itemPc, itemSlug, itemRaw, itemSplit, itemMeta, itemProps,
          calls, req, history, pending, landed>>

(***************************************************************************)
(* Bounds of the model.                                                    *)
(***************************************************************************)
\* the longest repository list the upstream returns in Spec
MaxRepos == 2
\* the longest repository list the upstream returns in SpecData
MaxDataRepos == 6
\* the longest markdown body, in blocks
MaxBlocks == 3
\* the longest filename, in characters
MaxNameLen == 6
\* the most entries a content directory has in SpecContent
MaxFiles == 2
\* the longest repository list the upstream returns in SpecRequest
MaxRequestRepos == 1
\* the most pathnames the router shows in SpecNav
MaxHistory == 3

(***************************************************************************)
(* JavaScript values.  A JSON scalar is a tagged tuple, so that null and   *)
(* undefined are values of their own.                                      *)
(***************************************************************************)
JStr(s) == <<"string", s>>
JNum(n) == <<"number", n>>
JNull == <<"null">>
Undefined == <<"undefined">>

\* obj.k on a plain object: a missing property reads as undefined
Get(obj, k) == IF k \in DOMAIN obj THEN obj[k] ELSE Undefined

\* JSON.stringify of a plain object drops the properties that are undefined
JsonStringify(obj) ==
    [k \in {x \in DOMAIN obj : obj[x] # Undefined} |-> obj[k]]

\* a value used as a property key is converted to a string
ToPropertyKey(v) == IF v = JNull THEN "null" ELSE v[2]

(***************************************************************************)
(* JavaScript numbers are IEEE-754 doubles.  A double that is zero or lies *)
(* in [1, 2^26) is a multiple of 2^-52 and is carried exactly as the three *)
(* limbs <<h, m, l>> of value h + m / 2^26 + l / 2^52; every operation     *)
(* rounds its exact result to Precision significant bits, ties to even.    *)
(***************************************************************************)
Precision == 53
LimbBits == (Precision - 1) \div 2
Limb == 2 ^ LimbBits

FZero == <<0, 0, 0>>
FromNat(n) == <<n, 0, 0>>

\* the limbs brought back below Limb, carries moved up
Carry(h, m, l) ==
    LET m1 == m + (l \div Limb)
    IN  <<h + (m1 \div Limb), m1 % Limb, l % Limb>>

\* floor(log2(h)) for h >= 1
Log2(h) == CHOOSE k \in 0..(LimbBits - 1) : 2 ^ k <= h /\ h < 2 ^ (k + 1)

\* round-to-nearest, ties-to-even: x holds the exact result down to 2^-52,
\* g is its next bit and sticky tells whether anything follows g
RoundNearestEven(x, g, sticky) ==
    IF x[1] = 0 THEN x
    ELSE LET unit == 2 ^ Log2(x[1])        \* weight in l of the last kept bit
             r == x[3] % unit             \* the bits of l that are dropped
             dropped == 2 * r + g
             odd == (x[3] \div unit) % 2 = 1
             up == dropped > unit \/ (dropped = unit /\ (sticky \/ odd))
         IN  IF up THEN Carry(x[1], x[2], x[3] - r + unit)
             ELSE <<x[1], x[2], x[3] - r>>

\* a + b on doubles
FAdd(a, b) ==
    RoundNearestEven(Carry(a[1] + b[1], a[2] + b[2], a[3] + b[3]), 0, FALSE)

\* n / t on doubles, for naturals n and 0 < t < 32 with n = 0 or n >= t
FDiv(n, t) ==
    LET r0 == n % t
        r1 == (r0 * Limb) % t
        r2 == (r1 * Limb) % t
    IN  RoundNearestEven(<<n \div t, (r0 * Limb) \div t, (r1 * Limb) \div t>>,
                         (2 * r2) \div t, (2 * r2) % t # 0)

\* a < b on doubles
FLess(a, b) ==
    \/ a[1] < b[1]
    \/ a[1] = b[1] /\ a[2] < b[2]
    \/ a[1] = b[1] /\ a[2] = b[2] /\ a[3] < b[3]

(***************************************************************************)
(* The upstream API (api.github.com) as the handlers see it.               *)
(***************************************************************************)
Invocations == {"i1", "i2"}
Handlers == {"user", "stars", "languages"}

Url(h) ==
    CASE h = "user" -> "https://api.github.com/users/josestg"
      [] h = "languages" -> "https://api.github.com/users/josestg/repos"
      [] h = "stars" -> "https://api.github.com/users/josestg/repos?per_page=100"

\* what the upstream sends for a user: the five fields the summary reads
\* and fields it does not read; name and bio may be null
UpstreamUsers ==
    { [login |-> JStr("josestg"), name |-> n, bio |-> b,
       avatar_url |-> JStr("https://avatars.githubusercontent.com/u/1"),
       followers |-> JNum(f), id |-> JNum(1), public_repos |-> JNum(9)] :
      n \in {JStr("Jose"), JNull}, b \in {JStr("Gopher"), JNull}, f \in {0, 7} }

\* what the upstream sends for a repository; language may be null
UpstreamRepos ==
    { [fork |-> FALSE, language |-> JStr("Go"), stargazers_count |-> 2],
      [fork |-> FALSE, language |-> JStr("TypeScript"), stargazers_count |-> 1],
      [fork |-> TRUE, language |-> JStr("Go"), stargazers_count |-> 4],
      [fork |-> FALSE, language |-> JStr("HTML"), stargazers_count |-> 1],
      [fork |-> FALSE, language |-> JNull, stargazers_count |-> 0] }

RepoLists(n) == UNION { [1..k -> UpstreamRepos] : k \in 0..n }

JsonObject(o) == [json |-> TRUE, type |-> "object", val |-> o]
JsonArray(a) == [json |-> TRUE, type |-> "array", val |-> a]
NotJson == [json |-> FALSE, type |-> "text", val |-> <<>>]

\* the body the upstream sends with an error status
ErrorObject ==
    [message |-> JStr("API rate limit exceeded"),
     documentation_url |-> JStr("https://docs.github.com/rest")]

Response(st, b) == [outcome |-> "response", status |-> st, body |-> b]
Rejected == [outcome |-> "rejected", status |-> 0, body |-> NotJson]
NoAnswer == [outcome |-> "none", status |-> 0, body |-> NotJson]

\* an error status comes with an error object or with a body that is no JSON
ErrorResponses ==
    { Response(403, JsonObject(ErrorObject)),
      Response(404, JsonObject(ErrorObject)),
      Response(502, NotJson) }

\* the responses the upstream can give to the GET of handler h, its
\* repository lists no longer than n
Responses(h, n) ==
    ErrorResponses \cup
    IF h = "user" THEN { Response(200, JsonObject(u)) : u \in UpstreamUsers }
    ELSE { Response(200, JsonArray(l)) : l \in RepoLists(n) }

\* the upstream call failed: no response, or an error status
UpstreamFailed(a) ==
    a.outcome = "rejected" \/ (a.outcome = "response" /\ a.status # 200)
UpstreamSucceeded(a) == a.outcome = "response" /\ a.status = 200

(***************************************************************************)
(* The response object of a handler (NextApiResponse).                     *)
(***************************************************************************)
CacheControl == "public, s-maxage=1200, stale-while-revalidate=600"
NoBody == <<>>
NoHeaders == [n \in {} |-> ""]
NewResponse ==
    [headers |-> NoHeaders, statusCode |-> 200, sent |-> FALSE, body |-> NoBody]

SetHeader(r, name, value) == [r EXCEPT !.headers = (name :> value) @@ @]
Status(r, code) == [r EXCEPT !.statusCode = code]
\* res.json(body) sets the content type and sends the body
Json(r, body) ==
    [SetHeader(r, "Content-Type", "application/json; charset=utf-8")
        EXCEPT !.sent = TRUE, !.body = body]

\* a mutant of Respond: the header is forgotten
RespondNoCacheHeader(r, body) == Json(Status(r, 200), body)

\* res.setHeader("Cache-Control", ...); res.status(200).json(body)
Respond(r, body) ==
    Json(Status(SetHeader(r, "Cache-Control", CacheControl), 200), body)

Returned(b) == [threw |-> FALSE, body |-> b]
Thrown == [threw |-> TRUE, body |-> NoBody]

(***************************************************************************)
(* The user handler.                                                       *)
(***************************************************************************)
\* the named properties of a parsed JSON value (an array has none of ours)
Properties(v) == IF v.type = "object" THEN v.val ELSE [n \in {} |-> Undefined]

\* a mutant of UserSummary: the whole upstream object is passed on
UserSummaryPassThrough(user) == user

\* const userSummary: GithubUser = { name: user.name, ... }
UserSummary(user) ==
    [name |-> Get(user, "name"),
     bio |-> Get(user, "bio"),
     username |-> Get(user, "login"),
     avatar_url |-> Get(user, "avatar_url"),
     followers |-> Get(user, "followers")]

UserHandler(v) == Returned(JsonStringify(UserSummary(Properties(v))))

(***************************************************************************)
(* The stars handler.                                                      *)
(***************************************************************************)
\* a mutant of StarsReducer: forks are counted too
StarsReducerCountingForks(accumulator, repository) ==
    accumulator + repository.stargazers_count

\* (accumulator, repository) => ... of repositories.reduce
StarsReducer(accumulator, repository) ==
    IF repository.fork THEN accumulator
    ELSE accumulator + repository.stargazers_count

RECURSIVE ReduceStars(_, _)
ReduceStars(repositories, accumulator) ==
    IF repositories = <<>> THEN accumulator
    ELSE ReduceStars(Tail(repositories),
                     StarsReducer(accumulator, Head(repositories)))

\* reduce exists on arrays only: on an object the call throws a TypeError
StarsHandler(v) ==
    IF v.type # "array" THEN Thrown
    ELSE Returned([stars |-> ReduceStars(v.val, 0)])

(***************************************************************************)
(* The languages handler.                                                  *)
(***************************************************************************)
isExcludedLanguage(language) ==
    \/ language = JStr("HTML")
    \/ language = JStr("CSS")
    \/ language = JStr("Jupyter Notebook")

Counted(repository) ==
    ~repository.fork /\ ~isExcludedLanguage(repository.language)

\* repositories.filter(...).map((repository) => repository.language)
LanguagesOf(repositories) ==
    LET kept == SelectSeq(repositories, Counted)
    IN  [i \in 1..Len(kept) |-> kept[i].language]

\* the accumulator object: its keys in insertion order, and their values
NoPersentase == [keys |-> <<>>, val |-> [k \in {} |-> FZero]]

\* the reducer of languages.reduce; language is used as a property key
PersentaseReducer(accumulator, language, total) ==
    LET key == ToPropertyKey(language)
        seen == \E i \in 1..Len(accumulator.keys) : accumulator.keys[i] = key
        old == IF seen THEN accumulator.val[key] ELSE FZero
    IN  [keys |-> IF seen THEN accumulator.keys
                  ELSE Append(accumulator.keys, key),
         val |-> (key :> FAdd(old, FDiv(100, total))) @@ accumulator.val]

RECURSIVE ReducePersentase(_, _, _)
ReducePersentase(languages, accumulator, total) ==
    IF languages = <<>> THEN accumulator
    ELSE ReducePersentase(Tail(languages),
                          PersentaseReducer(accumulator, Head(languages), total),
                          total)

\* Object.keys(persentase).map((key) => ({ name: key, persentase: ... }))
Entries(persentase) ==
    [i \in 1..Len(persentase.keys) |->
        [name |-> persentase.keys[i],
         persentase |-> persentase.val[persentase.keys[i]]]]

\* e put into a list sorted by (a, b) => b.persentase - a.persentase,
\* behind the entries it does not come before (the sort is stable)
RECURSIVE Insert(_, _)
Insert(sorted, e) ==
    IF sorted = <<>> THEN <<e>>
    ELSE IF FLess(Head(sorted).persentase, e.persentase)
         THEN <<e>> \o sorted
         ELSE <<Head(sorted)>> \o Insert(Tail(sorted), e)

\* a mutant of Sort: the entries are left in the order of Object.keys
Unsorted(entries) == entries

RECURSIVE Sort(_)
Sort(entries) ==
    IF entries = <<>> THEN <<>>
    ELSE Insert(Sort(SubSeq(entries, 1, Len(entries) - 1)),
                entries[Len(entries)])

\* a mutant of LanguageStats: 100 / total is listed as the share of one
\* repository, whatever the total
LanguageStatsWithShare(repositories) ==
    LET languages == LanguagesOf(repositories)
        total == Len(languages)
        share == IF total = 0 THEN <<"NaN">> ELSE FDiv(100, total)
    IN  Sort(Entries(ReducePersentase(languages, NoPersentase, total)))
            \o <<[name |-> "one repository", persentase |-> share]>>

\* const stats, from the repositories the upstream sent
LanguageStats(repositories) ==
    LET languages == LanguagesOf(repositories)
        total == Len(languages)
    IN  Sort(Entries(ReducePersentase(languages, NoPersentase, total)))

\* filter exists on arrays only: on an object the call throws a TypeError
LanguagesHandler(v) ==
    IF v.type # "array" THEN Thrown
    ELSE Returned(LanguageStats(v.val))

\* the code of handler h after `await response.json()` gave v
Handle(h, v) ==
    CASE h = "user" -> UserHandler(v)
      [] h = "stars" -> StarsHandler(v)
      [] h = "languages" -> LanguagesHandler(v)

(***************************************************************************)
(* The run of a handler invocation: fetch, await, response.json(), await,  *)
(* then the synchronous rest of the handler.                               *)
(***************************************************************************)
GetsOf(i) == { k \in 1..Len(requests) : requests[k].by = i }

\* the incoming request (NextApiRequest) a handler is called with: the
\* handlers name it req and read none of its fields
IncomingRequest(method, query, cacheHeader, body) ==
    [method |-> method, query |-> query,
     headers |-> [n \in {"cache-control"} |-> cacheHeader], body |-> body]

\* the request the pages of the site send
PageRequest == IncomingRequest("GET", "", "", "")

IncomingRequests ==
    { PageRequest,
      IncomingRequest("GET", "username=torvalds", "no-cache", ""),
      IncomingRequest("POST", "", "", "{\"followers\": 0}"),
      IncomingRequest("DELETE", "per_page=1", "no-store", "") }

\* the handler is called and issues its GET
Invoke(i, h) ==
    /\ pc[i] = "idle"
    /\ kind' = [kind EXCEPT ![i] = h]
    /\ requests' = Append(requests, [by |-> i, method |-> "GET", url |-> Url(h)])
    /\ log' = [log EXCEPT ![i] = Append(@, "fetch")]
    /\ pc' = [pc EXCEPT ![i] = "fetching"]
    /\ UNCHANGED <<upstream, res, req, renderVars, slugVars,
                 contentVars, navVars>>

\* a mutant of FetchReject: the GET is issued again after a rejection
FetchRejectRetry(i) ==
    /\ pc[i] = "fetching"
    /\ Cardinality(GetsOf(i)) < 2
    /\ requests' = Append(requests,
                          [by |-> i, method |-> "GET", url |-> Url(kind[i])])
    /\ log' = [log EXCEPT ![i] = Append(@, "fetch")]
    /\ UNCHANGED <<pc, kind, upstream, res, req, renderVars, slugVars,
                 contentVars, navVars>>

\* fetch rejects (no response): the await throws out of the handler
FetchReject(i) ==
    /\ pc[i] = "fetching"
    /\ upstream' = [upstream EXCEPT ![i] = Rejected]
    /\ log' = [log EXCEPT ![i] = Append(@, "throw")]
    /\ pc' = [pc EXCEPT ![i] = "failed"]
    /\ UNCHANGED <<kind, requests, res, req, renderVars, slugVars,
                 contentVars, navVars>>

\* fetch resolves with the response a, whatever its status; the handler
\* calls response.json()
FetchResolve(i, a) ==
    /\ pc[i] = "fetching"
    /\ upstream' = [upstream EXCEPT ![i] = a]
    /\ log' = [log EXCEPT ![i] = Append(@, "json")]
    /\ pc' = [pc EXCEPT ![i] = "parsing"]
    /\ UNCHANGED <<kind, requests, res, req, renderVars, slugVars,
                 contentVars, navVars>>

\* the body is no JSON: response.json() rejects, the await throws
JsonReject(i) ==
    /\ pc[i] = "parsing"
    /\ ~upstream[i].body.json
    /\ log' = [log EXCEPT ![i] = Append(@, "throw")]
    /\ pc' = [pc EXCEPT ![i] = "failed"]
    /\ UNCHANGED <<kind, upstream, requests, res, req, renderVars, slugVars,
                 contentVars, navVars>>

\* a mutant of JsonResolve: the parsed body is kept in a variable of the
\* module, which the other invocation overwrites
JsonResolveSharedBody(i) ==
    /\ pc[i] = "parsing"
    /\ upstream[i].body.json
    /\ LET other == CHOOSE j \in Invocations : j # i
           shared == IF upstream[other].body.json THEN upstream[other].body
                     ELSE upstream[i].body
           out == Handle(kind[i], shared)
       IN  IF out.threw
           THEN /\ log' = [log EXCEPT ![i] = Append(@, "throw")]
                /\ pc' = [pc EXCEPT ![i] = "failed"]
                /\ res' = res
           ELSE /\ res' = [res EXCEPT ![i] = Respond(@, out.body)]
                /\ log' = [log EXCEPT ![i] = @ \o <<"setHeader", "status", "send">>]
                /\ pc' = [pc EXCEPT ![i] = "done"]
    /\ UNCHANGED <<kind, upstream, requests, req, renderVars, slugVars,
                 contentVars, navVars>>

\* a mutant of JsonResolve: the header is set after the body was sent
JsonResolveHeaderAfterSend(i) ==
    /\ pc[i] = "parsing"
    /\ upstream[i].body.json
    /\ LET out == Handle(kind[i], upstream[i].body)
       IN  IF out.threw
           THEN /\ log' = [log EXCEPT ![i] = Append(@, "throw")]
                /\ pc' = [pc EXCEPT ![i] = "failed"]
                /\ res' = res
           ELSE /\ res' = [res EXCEPT ![i] = Respond(@, out.body)]
                /\ log' = [log EXCEPT ![i] = @ \o <<"status", "send", "setHeader">>]
                /\ pc' = [pc EXCEPT ![i] = "done"]
    /\ UNCHANGED <<kind, upstream, requests, req, renderVars, slugVars,
                 contentVars, navVars>>

\* a mutant of JsonResolve: a request that is no GET is answered 405
JsonResolveGetOnly(i) ==
    /\ pc[i] = "parsing"
    /\ upstream[i].body.json
    /\ LET out == Handle(kind[i], upstream[i].body)
       IN  IF out.threw
           THEN /\ log' = [log EXCEPT ![i] = Append(@, "throw")]
                /\ pc' = [pc EXCEPT ![i] = "failed"]
                /\ res' = res
           ELSE /\ res' = [res EXCEPT ![i] =
                             IF req[i].method = "GET"
                             THEN Respond(@, out.body)
                             ELSE Json(Status(@, 405), NoBody)]
                /\ log' = [log EXCEPT ![i] = @ \o <<"setHeader", "status", "send">>]
                /\ pc' = [pc EXCEPT ![i] = "done"]
    /\ UNCHANGED <<kind, upstream, requests, req, renderVars, slugVars,
                   contentVars, navVars>>

\* response.json() resolves: the rest of the handler runs to its end
JsonResolve(i) ==
    /\ pc[i] = "parsing"
    /\ upstream[i].body.json
    /\ LET out == Handle(kind[i], upstream[i].body)
       IN  IF out.threw
           THEN /\ log' = [log EXCEPT ![i] = Append(@, "throw")]
                /\ pc' = [pc EXCEPT ![i] = "failed"]
                /\ res' = res
           ELSE /\ res' = [res EXCEPT ![i] = Respond(@, out.body)]
                /\ log' = [log EXCEPT ![i] = @ \o <<"setHeader", "status", "send">>]
                /\ pc' = [pc EXCEPT ![i] = "done"]
    /\ UNCHANGED <<kind, upstream, requests, req, renderVars, slugVars,
                 contentVars, navVars>>

(***************************************************************************)
(* The markdown renderer: parse(md) of libs/md2html-parser.  A body is a   *)
(* sequence of blocks; a document is a sequence of nodes, each with its    *)
(* type and the block it comes from.                                       *)
(***************************************************************************)
MdBlocks ==
    { "blank",      \* a blank or whitespace-only line
      "text",       \* a paragraph of text
      "table",      \* a GFM table
      "math",       \* a math expression, $$ ... $$
      "code",       \* a fenced code block in a language prism knows
      "image",      \* ![alt](src)
      "jslink",     \* [x](javascript:alert(1))
      "script",     \* raw HTML: <script>alert(1)</script>
      "onerror" }   \* raw HTML: <img src=x onerror=alert(1)>

Bodies == UNION { [1..k -> MdBlocks] : k \in 0..MaxBlocks }

Node(t, b) == [type |-> t, src |-> b]

\* remark-parse: blank lines give no node; without extensions a table and
\* a math expression are paragraphs; raw HTML is kept as an html node
ParseBlock(b) ==
    CASE b \in {"text", "table", "math"} -> Node("paragraph", b)
      [] b = "code" -> Node("code", b)
      [] b = "image" -> Node("image", b)
      [] b = "jslink" -> Node("link", b)
      [] b \in {"script", "onerror"} -> Node("html", b)

NotBlank(b) == b # "blank"
Remark(body) ==
    LET blocks == SelectSeq(body, NotBlank)
    IN  [k \in 1..Len(blocks) |-> ParseBlock(blocks[k])]

\* remark-gfm: tables
GfmNode(n) == IF n.src = "table" THEN Node("table", n.src) ELSE n
Gfm(nodes) == [k \in 1..Len(nodes) |-> GfmNode(nodes[k])]

\* remark-math: math expressions
MathNode(n) == IF n.src = "math" THEN Node("math", n.src) ELSE n
Math(nodes) == [k \in 1..Len(nodes) |-> MathNode(nodes[k])]

\* a mutant of ToHast: allowDangerousHtml, raw HTML is passed on
ToHastAllowDangerousHtml(n) ==
    CASE n.type = "paragraph" -> Node("p", n.src)
      [] n.type = "table" -> Node("table", n.src)
      [] n.type = "math" -> Node("div.math", n.src)
      [] n.type = "code" -> Node("pre", n.src)
      [] n.type = "image" -> Node("img", n.src)
      [] n.type = "link" -> Node("a", n.src)
      [] n.type = "html" -> Node("raw", n.src)

\* remark-rehype, called without options: every node becomes an element,
\* a link keeps its url, and an html node is dropped
ToHast(n) ==
    CASE n.type = "paragraph" -> Node("p", n.src)
      [] n.type = "table" -> Node("table", n.src)
      [] n.type = "math" -> Node("div.math", n.src)
      [] n.type = "code" -> Node("pre", n.src)
      [] n.type = "image" -> Node("img", n.src)
      [] n.type = "link" -> Node("a", n.src)
      [] n.type = "html" -> Node("dropped", n.src)

Newline == Node("text", "newline")
NotDropped(n) == n.type # "dropped"

\* the elements, a newline text node between two of them
RECURSIVE Interspersed(_)
Interspersed(nodes) ==
    IF Len(nodes) <= 1 THEN nodes
    ELSE <<Head(nodes), Newline>> \o Interspersed(Tail(nodes))

Remark2Rehype(nodes) ==
    Interspersed(SelectSeq([k \in 1..Len(nodes) |-> ToHast(nodes[k])], NotDropped))

\* mdx-prism: code blocks are highlighted
PrismNode(n) == IF n.type = "pre" THEN Node("pre.highlighted", n.src) ELSE n
Prism(nodes) == [k \in 1..Len(nodes) |-> PrismNode(nodes[k])]

\* rehype-figure: images are wrapped in figure and figcaption
FigureNode(n) == IF n.type = "img" THEN Node("figure", n.src) ELSE n
Figure(nodes) == [k \in 1..Len(nodes) |-> FigureNode(nodes[k])]

\* rehype-katex: math elements are rendered
KatexNode(n) == IF n.type = "div.math" THEN Node("span.katex", n.src) ELSE n
Katex(nodes) == [k \in 1..Len(nodes) |-> KatexNode(nodes[k])]

\* rehype-raw: raw nodes are parsed into the elements they spell
RawNode(n) ==
    IF n.type # "raw" THEN n
    ELSE IF n.src = "script" THEN Node("script", n.src)
         ELSE Node("img[onerror]", n.src)
Raw(nodes) == [k \in 1..Len(nodes) |-> RawNode(nodes[k])]

\* rehype-minify-whitespace: the whitespace between blocks goes
NotWhitespace(n) == n # Newline
Minify(nodes) == SelectSeq(nodes, NotWhitespace)

\* rehype-stringify: one tag per element
Tag(n) ==
    CASE n.type = "a" /\ n.src = "jslink" -> "<a href=\"javascript:alert(1)\">"
      [] n.type = "script" -> "<script>"
      [] n.type = "img[onerror]" -> "<img onerror=\"alert(1)\">"
      [] n.type = "text" -> "\n"
      [] OTHER -> "<" \o n.type \o ">"
Stringify(nodes) == [k \in 1..Len(nodes) |-> Tag(nodes[k])]

\* a mutant of Pipeline: raw is attached before katex
PipelineRawBeforeKatex ==
    << "remark", "gfm", "math", "remark2rehype", "prism", "figure",
       "raw", "katex", "minify", "stringify" >>

\* the plugins in the order parse() attaches them with use()
Pipeline ==
    << "remark", "gfm", "math", "remark2rehype", "prism", "figure",
       "katex", "raw", "minify", "stringify" >>

Apply(plugin, doc) ==
    CASE plugin = "remark" -> Remark(doc)
      [] plugin = "gfm" -> Gfm(doc)
      [] plugin = "math" -> Math(doc)
      [] plugin = "remark2rehype" -> Remark2Rehype(doc)
      [] plugin = "prism" -> Prism(doc)
      [] plugin = "figure" -> Figure(doc)
      [] plugin = "katex" -> Katex(doc)
      [] plugin = "raw" -> Raw(doc)
      [] plugin = "minify" -> Minify(doc)
      [] plugin = "stringify" -> Stringify(doc)

Rendered == stage = Len(Pipeline) + 1

\* parse(md) is called: processSync starts on the body
ProcessSync ==
    /\ stage = 0
    /\ tree' = md
    /\ stage' = 1
    /\ UNCHANGED <<md, ran, html, statsVars, slugVars, contentVars,
                 navVars>>

\* the next plugin runs on the document; the last one gives the string
RunPlugin ==
    /\ stage \in 1..Len(Pipeline)
    /\ tree' = Apply(Pipeline[stage], tree)
    /\ ran' = Append(ran, Pipeline[stage])
    /\ html' = IF stage = Len(Pipeline) THEN tree' ELSE html
    /\ stage' = stage + 1
    /\ UNCHANGED <<md, statsVars, slugVars, contentVars,
                 navVars>>

(***************************************************************************)
(* Slug derivation: filename.replace(".md", "").  A string is the sequence *)
(* of its characters.                                                      *)
(***************************************************************************)
Alphabet == {".", "m", "d", "a"}
Filenames == UNION { [1..k -> Alphabet] : k \in 0..MaxNameLen }
DotMd == <<".", "m", "d">>
NotDerived == <<"?">>

\* s.indexOf(pattern), counted from 1; 0 when pattern does not occur
IndexOf(s, pattern) ==
    LET hits == { k \in 1..(Len(s) - Len(pattern) + 1) :
                     SubSeq(s, k, k + Len(pattern) - 1) = pattern }
    IN  IF hits = {} THEN 0
        ELSE CHOOSE k \in hits : \A j \in hits : k <= j

\* s.replace(pattern, replacement) with a string pattern: the first
\* occurrence only
Replace(s, pattern, replacement) ==
    LET k == IndexOf(s, pattern)
    IN  IF k = 0 THEN s
        ELSE SubSeq(s, 1, k - 1) \o replacement
                \o SubSeq(s, k + Len(pattern), Len(s))

\* a mutant of SlugOf: the regular expression /.md/, whose dot matches any
\* character
SlugOfRegexDot(name) ==
    LET hits == { k \in 1..(Len(name) - 2) :
                     name[k + 1] = "m" /\ name[k + 2] = "d" }
    IN  IF hits = {} THEN name
        ELSE LET k == CHOOSE x \in hits : \A j \in hits : x <= j
             IN  SubSeq(name, 1, k - 1) \o SubSeq(name, k + 3, Len(name))

\* slug: filename.replace(".md", "")
SlugOf(name) == Replace(name, DotMd, <<>>)

Derive ==
    /\ slug = NotDerived
    /\ slug' = SlugOf(filename)
    /\ UNCHANGED <<filename, reslug, statsVars, renderVars, contentVars,
                 navVars>>

DeriveAgain ==
    /\ slug # NotDerived
    /\ reslug = NotDerived
    /\ reslug' = SlugOf(slug)
    /\ UNCHANGED <<filename, slug, statsVars, renderVars, contentVars,
                 navVars>>

(***************************************************************************)
(* The content directory and what the loaders call on a file: fs, the      *)
(* gray-matter split, reading-time and the renderer.  A file is a sequence *)
(* of lines: an optional front-matter block (a delimiter, the fields, a    *)
(* delimiter) and then the blocks of the body.                             *)
(***************************************************************************)
Delimiter == <<"---">>
Field(key, value) == <<"field", key, value>>
Block(b) == <<"block", b>>

JBool(b) == <<"boolean", b>>
JList(l) == <<"list", l>>

\* the fields ContentMetadata takes from the front-matter
MatterFields == {"title", "dateCreated", "intro", "categories", "useLatex"}
\* keys a front-matter may hold besides them
FreeFormKeys == {"draft", "slug"}
MatterKeys == <<"title", "dateCreated", "intro", "categories", "useLatex",
                "draft", "slug">>

\* a value of the type ContentMetadata declares for the key
DeclaredValue(key) ==
    CASE key = "title" -> JStr("Graceful Shutdown")
      [] key = "dateCreated" -> JStr("13 Mar 2021")
      [] key = "intro" -> JStr("Intro")
      [] key = "categories" -> JList(<<"Go", "RESTful API">>)
      [] key = "useLatex" -> JBool(FALSE)
      [] key = "draft" -> JBool(TRUE)
      [] key = "slug" -> JStr("other")

\* a value of another type, as a malformed field has
MalformedValue(key) ==
    CASE key = "title" -> JNum(7)
      [] key = "dateCreated" -> JNull
      [] key = "intro" -> JList(<<>>)
      [] key = "categories" -> JStr("Go")
      [] key = "useLatex" -> JStr("no")
      [] key = "draft" -> JStr("yes")
      [] key = "slug" -> JNum(1)

\* what stands for the value on a line that is not valid YAML
NotYaml == <<"invalid">>

\* the front-matter block holding the keys of present, in the order of
\* MatterKeys, the keys of malformed with their malformed value and the
\* keys of invalid on a line that is not valid YAML
FrontMatter(present, malformed, invalid) ==
    LET keys == SelectSeq(MatterKeys, LAMBDA k : k \in present)
        value(k) == IF k \in invalid THEN NotYaml
                    ELSE IF k \in malformed THEN MalformedValue(k)
                    ELSE DeclaredValue(k)
    IN  <<Delimiter>> \o [j \in 1..Len(keys) |-> Field(keys[j], value(keys[j]))]
           \o <<Delimiter>>

BodyLines(body) == [j \in 1..Len(body) |-> Block(body[j])]

\* a mutant of GrayMatter: the front-matter block is left in content, each
\* of its lines a line of text
GrayMatterKeepingBlock(rawMarkdown) ==
    [ threw |-> FALSE,
      data |-> [ key \in { rawMarkdown[j][2] :
                             j \in { x \in 1..Len(rawMarkdown) :
                                        rawMarkdown[x][1] = "field" } } |->
                   LET j == CHOOSE x \in 1..Len(rawMarkdown) :
                               /\ rawMarkdown[x][1] = "field"
                               /\ rawMarkdown[x][2] = key
                   IN  rawMarkdown[j][3] ],
      content |-> [ j \in 1..Len(rawMarkdown) |->
                      IF rawMarkdown[j][1] = "block" THEN rawMarkdown[j][2]
                      ELSE "text" ] ]

\* gray-matter: a file that starts with the delimiter has a front-matter
\* block, which ends at the next delimiter; data holds its keys, content
\* is what follows the block; without a block content is the whole file;
\* the YAML parser throws on a block that is not valid YAML
GrayMatter(rawMarkdown) ==
    LET fenced == rawMarkdown # <<>> /\ rawMarkdown[1] = Delimiter
        close == IF fenced
                 THEN CHOOSE k \in 2..Len(rawMarkdown) :
                          /\ rawMarkdown[k] = Delimiter
                          /\ \A j \in 2..(k - 1) : rawMarkdown[j] # Delimiter
                 ELSE 0
        fields == { j \in 2..(close - 1) : rawMarkdown[j][1] = "field" }
        rest == SubSeq(rawMarkdown, close + 1, Len(rawMarkdown))
    IN  [ threw |-> \E j \in fields : rawMarkdown[j][3] = NotYaml,
          data |-> [ key \in { rawMarkdown[j][2] : j \in fields } |->
                       LET j == CHOOSE x \in fields : rawMarkdown[x][2] = key
                       IN  rawMarkdown[j][3] ],
          content |-> [j \in 1..Len(rest) |-> rest[j][2]] ]

\* reading-time counts the words of the text; a block stands for a fixed
\* piece of markdown: a paragraph of a hundred words, a one-word formula
WordsIn(b) ==
    CASE b = "blank" -> 0
      [] b = "text" -> 100
      [] b = "math" -> 1
      [] b = "code" -> 3
      [] b = "table" -> 4
      [] b \in {"image", "jslink", "script", "onerror"} -> 1

\* a mutant of CountWords: the count is set, not added to, at each block
CountWordsOfLastBlock(content) ==
    IF content = <<>> THEN 0 ELSE WordsIn(content[Len(content)])

RECURSIVE CountWords(_)
CountWords(content) ==
    IF content = <<>> THEN 0
    ELSE WordsIn(Head(content)) + CountWords(Tail(content))

WordsPerMinute == 200

\* n / t cut below 2^-52, for naturals n >= t and 0 < t < 32
FDivTruncated(n, t) ==
    LET r0 == n % t
        r1 == (r0 * Limb) % t
    IN  <<n \div t, (r0 * Limb) \div t, (r1 * Limb) \div t>>

\* whether the double words / WordsPerMinute is the exact quotient or lies
\* above it; the quotient by 200 = 8 * 25 has the significand of
\* 32 * words / 25
MinutesNotBelow(words) ==
    LET odd == WordsPerMinute \div 8
    IN  \/ (32 * words) % odd = 0
        \/ FLess(FDivTruncated(32 * words, odd), FDiv(32 * words, odd))

\* minutes.toFixed(2), in hundredths: the integer n for which n / 100 is
\* nearest to the double minutes, the larger one when two are as near
ToFixed2(words) ==
    LET q == (100 * words) \div WordsPerMinute
        r == (100 * words) % WordsPerMinute
    IN  IF 2 * r < WordsPerMinute THEN q
        ELSE IF 2 * r > WordsPerMinute THEN q + 1
        ELSE IF MinutesNotBelow(words) THEN q + 1 ELSE q

\* countReadingTime(content): text is Math.ceil(minutes.toFixed(2)) followed
\* by " min read"
ReadingTime(content) ==
    LET words == CountWords(content)
        displayed == (ToFixed2(words) + 99) \div 100
    IN  [ words |-> words, text |-> <<displayed, " min read">> ]

\* parse(md): processSync runs the plugins of the pipeline in order
RECURSIVE RunPlugins(_, _)
RunPlugins(doc, k) ==
    IF k > Len(Pipeline) THEN doc
    ELSE RunPlugins(Apply(Pipeline[k], doc), k + 1)

Parse(body) == RunPlugins(body, 1)

\* fs.readFileSync(name): throws when the directory has no such file or the
\* entry cannot be read (no permission, a subdirectory)
ReadFileSync(name) ==
    IF name \in DOMAIN files /\ files[name].readable
    THEN [threw |-> FALSE, value |-> files[name].raw]
    ELSE [threw |-> TRUE, value |-> <<>>]

(***************************************************************************)
(* The index loader: getStaticProps of pages/index.tsx.                    *)
(***************************************************************************)
NoProps == [returned |-> FALSE]

\* a mutant of IndexMetadata: the front-matter is spread into the metadata
IndexMetadataSpread(name, rawMarkdown) ==
    LET split == GrayMatter(rawMarkdown)
        markdownMetadata == split.data
        readingTime == ReadingTime(split.content)
    IN  [ title |-> Get(markdownMetadata, "title"),
          categories |-> Get(markdownMetadata, "categories"),
          dateCreated |-> Get(markdownMetadata, "dateCreated"),
          intro |-> Get(markdownMetadata, "intro"),
          useLatex |-> Get(markdownMetadata, "useLatex"),
          slug |-> SlugOf(name),
          readTime |-> readingTime.text ] @@ markdownMetadata

\* the callback of map, after the file was read
IndexMetadata(name, rawMarkdown) ==
    LET split == GrayMatter(rawMarkdown)
        markdownMetadata == split.data
        readingTime == ReadingTime(split.content)
    IN  [ title |-> Get(markdownMetadata, "title"),
          categories |-> Get(markdownMetadata, "categories"),
          dateCreated |-> Get(markdownMetadata, "dateCreated"),
          intro |-> Get(markdownMetadata, "intro"),
          useLatex |-> Get(markdownMetadata, "useLatex"),
          slug |-> SlugOf(name),
          readTime |-> readingTime.text ]

\* readdirSync lists the directory; map starts on the listing
IndexReaddir ==
    /\ indexPc = "idle"
    /\ indexPc' = "mapping"
    /\ UNCHANGED <<dir, files, indexData, indexProps, paths, itemPc, itemSlug,
                   itemRaw, itemSplit, itemMeta, itemProps, calls,
                   statsVars, renderVars, slugVars, navVars>>

\* a mutant of IndexMapFile: the metadata of an entry is put in front of
\* the ones mapped before it
IndexMapFileReversed ==
    /\ indexPc = "mapping"
    /\ Len(indexData) < Len(dir)
    /\ LET name == dir[Len(indexData) + 1]
           read == ReadFileSync(name)
       IN  IF read.threw \/ GrayMatter(read.value).threw
           THEN /\ indexPc' = "failed"
                /\ indexData' = indexData
           ELSE /\ indexData' = <<IndexMetadata(name, read.value)>> \o indexData
                /\ indexPc' = indexPc
    /\ UNCHANGED <<dir, files, indexProps, paths, itemPc, itemSlug,
                   itemRaw, itemSplit, itemMeta, itemProps, calls,
                   statsVars, renderVars, slugVars, navVars>>

\* a mutant of IndexMapFile: an entry that cannot be read is taken as an
\* empty file
IndexMapFileTolerant ==
    /\ indexPc = "mapping"
    /\ Len(indexData) < Len(dir)
    /\ LET name == dir[Len(indexData) + 1]
           read == ReadFileSync(name)
       IN  indexData' = Append(indexData, IndexMetadata(name, read.value))
    /\ UNCHANGED <<dir, files, indexPc, indexProps, paths, itemPc, itemSlug,
                   itemRaw, itemSplit, itemMeta, itemProps, calls,
                   statsVars, renderVars, slugVars, navVars>>

\* map calls its callback on the next entry of the listing: the file is
\* read and split, or readFileSync or grayMatter throws out of the loader
IndexMapFile ==
    /\ indexPc = "mapping"
    /\ Len(indexData) < Len(dir)
    /\ LET name == dir[Len(indexData) + 1]
           read == ReadFileSync(name)
       IN  IF read.threw \/ GrayMatter(read.value).threw
           THEN /\ indexPc' = "failed"
                /\ indexData' = indexData
           ELSE /\ indexData' = Append(indexData, IndexMetadata(name, read.value))
                /\ indexPc' = indexPc
    /\ UNCHANGED <<dir, files, indexProps, paths, itemPc, itemSlug,
                   itemRaw, itemSplit, itemMeta, itemProps, calls,
                   statsVars, renderVars, slugVars, navVars>>

\* map is through the listing: the loader returns its props
IndexReturn ==
    /\ indexPc = "mapping"
    /\ Len(indexData) = Len(dir)
    /\ indexProps' = [returned |-> TRUE, props |-> [data |-> indexData]]
    /\ indexPc' = "done"
    /\ UNCHANGED <<dir, files, indexData, paths, itemPc, itemSlug,
                   itemRaw, itemSplit, itemMeta, itemProps, calls,
                   statsVars, renderVars, slugVars, navVars>>

(***************************************************************************)
(* The per-item page: getStaticPaths and getStaticProps of                 *)
(* pages/posts/[slug].tsx.                                                 *)
(***************************************************************************)
NoPaths == [returned |-> FALSE]

\* a mutant of GetStaticPaths: fallback: true
GetStaticPathsFallback ==
    /\ ~paths.returned
    /\ paths' = [ returned |-> TRUE,
                  paths |-> [k \in 1..Len(dir) |->
                                [params |-> [slug |-> SlugOf(dir[k])]]],
                  fallback |-> TRUE ]
    /\ UNCHANGED <<dir, files, indexPc, indexData, indexProps, itemPc,
                   itemSlug, itemRaw, itemSplit, itemMeta, itemProps, calls,
                   statsVars, renderVars, slugVars, navVars>>

\* getStaticPaths: one route per entry of the listing, fallback: false
GetStaticPaths ==
    /\ ~paths.returned
    /\ paths' = [ returned |-> TRUE,
                  paths |-> [k \in 1..Len(dir) |->
                                [params |-> [slug |-> SlugOf(dir[k])]]],
                  fallback |-> FALSE ]
    /\ UNCHANGED <<dir, files, indexPc, indexData, indexProps, itemPc,
                   itemSlug, itemRaw, itemSplit, itemMeta, itemProps, calls,
                   statsVars, renderVars, slugVars, navVars>>

\* the slugs of the routes getStaticPaths returned
Routes == { paths.paths[k].params.slug : k \in 1..Len(paths.paths) }

\* a page is built for the slugs of the returned paths; any other slug is
\* served only when fallback is not false
Routable(s) == paths.returned /\ (s \in Routes \/ paths.fallback)

Call(fn, arg) == [fn |-> fn, arg |-> arg]

\* getStaticProps is called with ctx.params.slug = s
ItemCall(s) ==
    /\ itemPc = "idle"
    /\ Routable(s)
    /\ itemSlug' = s
    /\ itemPc' = "reading"
    /\ UNCHANGED <<dir, files, indexPc, indexData, indexProps, paths,
                   itemRaw, itemSplit, itemMeta, itemProps, calls,
                   statsVars, renderVars, slugVars, navVars>>

\* readFileSync of slug + ".md": the file is read, or the call throws out
\* of the loader
ItemRead ==
    /\ itemPc = "reading"
    /\ LET read == ReadFileSync(itemSlug \o DotMd)
       IN  /\ calls' = Append(calls, Call("readFileSync", itemSlug \o DotMd))
           /\ IF read.threw
              THEN /\ itemPc' = "failed"
                   /\ itemRaw' = itemRaw
              ELSE /\ itemPc' = "splitting"
                   /\ itemRaw' = read.value
    /\ UNCHANGED <<dir, files, indexPc, indexData, indexProps, paths,
                   itemSlug, itemSplit, itemMeta, itemProps,
                   statsVars, renderVars, slugVars, navVars>>

\* grayMatter(rawMarkdown): the file is split, or the call throws out of
\* the loader
ItemSplit ==
    /\ itemPc = "splitting"
    /\ calls' = Append(calls, Call("grayMatter", itemRaw))
    /\ IF GrayMatter(itemRaw).threw
       THEN /\ itemPc' = "failed"
            /\ itemSplit' = itemSplit
       ELSE /\ itemPc' = "timing"
            /\ itemSplit' = GrayMatter(itemRaw)
    /\ UNCHANGED <<dir, files, indexPc, indexData, indexProps, paths,
                   itemSlug, itemRaw, itemMeta, itemProps,
                   statsVars, renderVars, slugVars, navVars>>

\* a mutant of ItemMetadata: a post without title gets an empty one
ItemMetadataDefaultTitle(s, markdownMetadata, readingTime) ==
    [ slug |-> s,
      readTime |-> readingTime.text,
      intro |-> Get(markdownMetadata, "intro"),
      title |-> IF "title" \in DOMAIN markdownMetadata
                THEN markdownMetadata["title"] ELSE JStr(""),
      useLatex |-> Get(markdownMetadata, "useLatex"),
      categories |-> Get(markdownMetadata, "categories"),
      dateCreated |-> Get(markdownMetadata, "dateCreated") ]

\* the metadata object of the per-item loader
ItemMetadata(s, markdownMetadata, readingTime) ==
    [ slug |-> s,
      readTime |-> readingTime.text,
      intro |-> Get(markdownMetadata, "intro"),
      title |-> Get(markdownMetadata, "title"),
      useLatex |-> Get(markdownMetadata, "useLatex"),
      categories |-> Get(markdownMetadata, "categories"),
      dateCreated |-> Get(markdownMetadata, "dateCreated") ]

\* countReadingTime(content), then the metadata object
ItemReadingTime ==
    /\ itemPc = "timing"
    /\ itemMeta' = ItemMetadata(itemSlug, itemSplit.data,
                                ReadingTime(itemSplit.content))
    /\ calls' = Append(calls, Call("countReadingTime", itemSplit.content))
    /\ itemPc' = "rendering"
    /\ UNCHANGED <<dir, files, indexPc, indexData, indexProps, paths,
                   itemSlug, itemRaw, itemSplit, itemProps,
                   statsVars, renderVars, slugVars, navVars>>

\* makrdown2Html(content), then the props are returned
ItemRender ==
    /\ itemPc = "rendering"
    /\ calls' = Append(calls, Call("makrdown2Html", itemSplit.content))
    /\ itemProps' =
          [ returned |-> TRUE,
            props |-> [ parsedMarkdown |->
                          [ metadata |-> itemMeta,
                            htmlString |-> Parse(itemSplit.content) ] ] ]
    /\ itemPc' = "done"
    /\ UNCHANGED <<dir, files, indexPc, indexData, indexProps, paths,
                   itemSlug, itemRaw, itemSplit, itemMeta,
                   statsVars, renderVars, slugVars, navVars>>

(***************************************************************************)
(* The parts of the state a specification does not move.                   *)
(***************************************************************************)
(***************************************************************************)
(* The navbar: two NavLinks and the brand logo, on every page of the site. *)
(* A pathname is the sequence of its segments.                             *)
(***************************************************************************)
Root == <<>>
About == <<"about">>
Post == <<"posts", "[slug]">>
NotFound == <<"404">>

\* the pathnames of the pages, each rendered under the Navbar
Pages == {Root, About, Post, NotFound}

\* <NavLink to={"/"}>Posts</NavLink> <NavLink to={"/about"}>About</NavLink>
NavLinks == {Root, About}

\* useRouter(): the router shows the pathname it reached last
router == [pathname |-> history[Len(history)]]

NoNavigation == [by |-> "none", to |-> Root]

\* a mutant of isActive: a link is active on every page below its target
IsActiveBelow(to) ==
    /\ Len(to) <= Len(router.pathname)
    /\ SubSeq(router.pathname, 1, Len(to)) = to

\* isActive={router.pathname === to}
isActive(to) == router.pathname = to

\* NavLink's handleClick: router.push(to); a route change under way is
\* cancelled by the new one
ClickNavLink(to) ==
    /\ pending' = [by |-> "NavLink", to |-> to]
    /\ UNCHANGED <<history, landed, statsVars, renderVars, slugVars,
                   contentVars>>

\* BrandLogo's handleClick: router.push("/")
ClickBrandLogo ==
    /\ pending' = [by |-> "BrandLogo", to |-> Root]
    /\ UNCHANGED <<history, landed, statsVars, renderVars, slugVars,
                   contentVars>>

\* the route change completes: the router shows the new pathname and the
\* Navbar is rendered again
RouteChangeComplete ==
    /\ pending # NoNavigation
    /\ Len(history) < MaxHistory
    /\ history' = Append(history, pending.to)
    /\ landed' = pending
    /\ pending' = NoNavigation
    /\ UNCHANGED <<statsVars, renderVars, slugVars, contentVars>>

\* the route change fails: the router stays where it is
RouteChangeError ==
    /\ pending # NoNavigation
    /\ pending' = NoNavigation
    /\ UNCHANGED <<history, landed, statsVars, renderVars, slugVars,
                   contentVars>>

\* the browser loads a page of the site anew (an address typed in, a plain
\* link): the application starts on that page
Load(page) ==
    /\ Len(history) < MaxHistory
    /\ history' = Append(history, page)
    /\ pending' = NoNavigation
    /\ landed' = NoNavigation
    /\ UNCHANGED <<statsVars, renderVars, slugVars, contentVars>>

HandlersIdle ==
    /\ pc = [i \in Invocations |-> "idle"]
    /\ kind = [i \in Invocations |-> "none"]
    /\ upstream = [i \in Invocations |-> NoAnswer]
    /\ requests = <<>>
    /\ res = [i \in Invocations |-> NewResponse]
    /\ log = [i \in Invocations |-> <<>>]

StatsIdle == HandlersIdle /\ req = [i \in Invocations |-> PageRequest]

RenderIdle ==
    /\ md = <<>>
    /\ stage = 0
    /\ tree = <<>>
    /\ ran = <<>>
    /\ html = <<>>

SlugIdle ==
    /\ filename = <<>>
    /\ slug = NotDerived
    /\ reslug = NotDerived

\* no loader has been called
LoadersIdle ==
    /\ indexPc = "idle"
    /\ indexData = <<>>
    /\ indexProps = NoProps
    /\ paths = NoPaths
    /\ itemPc = "idle"
    /\ itemSlug = NotDerived
    /\ itemRaw = <<>>
    /\ itemSplit = [threw |-> FALSE, data |-> <<>>, content |-> <<>>]
    /\ itemMeta = <<>>
    /\ itemProps = NoProps
    /\ calls = <<>>

ContentIdle ==
    /\ dir = <<>>
    /\ files = <<>>
    /\ LoadersIdle

\* the site was opened at "/" and nothing was clicked
NavIdle ==
    /\ history = <<Root>>
    /\ pending = NoNavigation
    /\ landed = NoNavigation

(***************************************************************************)
(* Spec: the stats handlers, any number of invocations interleaved.        *)
(***************************************************************************)
Init == StatsIdle /\ RenderIdle /\ SlugIdle /\ ContentIdle /\ NavIdle

Next ==
    \/ \E i \in Invocations, h \in Handlers : Invoke(i, h)
    \/ \E i \in Invocations : FetchReject(i)
    \/ \E i \in Invocations :
          /\ pc[i] = "fetching"
          /\ \E a \in Responses(kind[i], MaxRepos) : FetchResolve(i, a)
    \/ \E i \in Invocations : JsonReject(i)
    \/ \E i \in Invocations : JsonResolve(i)

Spec == Init /\ [][Next]_vars

(***************************************************************************)
(* SpecData: one invocation of the stars or of the languages handler on    *)
(* the repository lists up to MaxDataRepos long.                           *)
(***************************************************************************)
DataResponses == { Response(200, JsonArray(l)) : l \in RepoLists(MaxDataRepos) }

NextData ==
    \/ \E h \in {"stars", "languages"} : Invoke("i1", h)
    \/ /\ pc["i1"] = "fetching"
       /\ \E a \in DataResponses : FetchResolve("i1", a)
    \/ JsonResolve("i1")

SpecData == Init /\ [][NextData]_vars

(***************************************************************************)
(* SpecRender: one call of parse() on each body up to MaxBlocks blocks.    *)
(***************************************************************************)
InitRender ==
    /\ StatsIdle /\ NavIdle /\ SlugIdle /\ ContentIdle
    /\ md \in Bodies
    /\ stage = 0
    /\ tree = <<>>
    /\ ran = <<>>
    /\ html = <<>>

NextRender == ProcessSync \/ RunPlugin

SpecRender == InitRender /\ [][NextRender]_vars

(***************************************************************************)
(* SpecSlug: the slug of each filename up to MaxNameLen characters, and    *)
(* the slug of that slug.                                                  *)
(***************************************************************************)
InitSlug ==
    /\ StatsIdle /\ NavIdle /\ RenderIdle /\ ContentIdle
    /\ filename \in Filenames
    /\ slug = NotDerived
    /\ reslug = NotDerived

NextSlug == Derive \/ DeriveAgain

SpecSlug == InitSlug /\ [][NextSlug]_vars

(***************************************************************************)
(* SpecContent: the loaders on each content directory of up to MaxFiles    *)
(* entries, listed in any order.                                           *)
(***************************************************************************)
\* names of entries: two posts, a name without extension, and two names
\* that hold ".md" before their extension
ContentNames ==
    { <<"a", ".", "m", "d">>,
      <<"b", ".", "m", "d">>,
      <<"a">>,
      <<"a", ".", "m", "d", "b", ".", "m", "d">>,
      <<"a", "b", ".", "m", "d", ".", "m", "d">> }

Listings ==
    { l \in UNION { [1..k -> ContentNames] : k \in 0..MaxFiles } :
         \A i, j \in 1..Len(l) : i # j => l[i] # l[j] }

Range(l) == { l[k] : k \in 1..Len(l) }

\* what a readable file holds: a post with its front-matter, a file without
\* front-matter, a file whose front-matter lacks fields and has a free-form
\* key and whose body is empty
SampleRaws ==
    { FrontMatter(MatterFields, {}, {}) \o BodyLines(<<"text", "math">>),
      BodyLines(<<"script", "text">>),
      FrontMatter({"title", "draft"}, {}, {}) }

FileChoices ==
    {[readable |-> FALSE, raw |-> <<>>]}
        \cup { [readable |-> TRUE, raw |-> r] : r \in SampleRaws }

\* the slugs a page may be requested for
RequestSlugs == { SlugOf(n) : n \in ContentNames } \cup { <<"z">> }

InitContent ==
    /\ StatsIdle /\ NavIdle /\ RenderIdle /\ SlugIdle
    /\ dir \in Listings
    /\ files \in [Range(dir) -> FileChoices]
    /\ LoadersIdle

NextContent ==
    \/ IndexReaddir
    \/ IndexMapFile
    \/ IndexReturn
    \/ GetStaticPaths
    \/ \E s \in RequestSlugs : ItemCall(s)
    \/ ItemRead
    \/ ItemSplit
    \/ ItemReadingTime
    \/ ItemRender

SpecContent == InitContent /\ [][NextContent]_vars

(***************************************************************************)
(* SpecMatter: the loaders on one post, for every set of front-matter keys *)
(* it may hold and every set of malformed fields among them, one of which  *)
(* may be on a line that is not valid YAML.                                *)
(***************************************************************************)
PostName == <<"a", ".", "m", "d">>
PostBody == <<"text", "blank", "math">>

InitMatter ==
    /\ StatsIdle /\ NavIdle /\ RenderIdle /\ SlugIdle
    /\ dir = <<PostName>>
    /\ \E present \in SUBSET (MatterFields \cup FreeFormKeys) :
          \E malformed \in SUBSET (present \cap MatterFields) :
             \E invalid \in { i \in SUBSET malformed : Cardinality(i) <= 1 } :
                files = [n \in {PostName} |->
                           [ readable |-> TRUE,
                             raw |-> FrontMatter(present, malformed, invalid)
                                        \o BodyLines(PostBody) ]]
    /\ LoadersIdle

SpecMatter == InitMatter /\ [][NextContent]_vars

(***************************************************************************)
(* SpecReadTime: the loaders on two posts without front-matter, for the    *)
(* bodies of up to MaxBlocks paragraphs, formulas and blank lines.         *)
(***************************************************************************)
OtherName == <<"b", ".", "m", "d">>
ReadTimeBodies ==
    UNION { [1..k -> {"blank", "math", "text"}] : k \in 0..MaxBlocks }

InitReadTime ==
    /\ StatsIdle /\ NavIdle /\ RenderIdle /\ SlugIdle
    /\ dir = <<PostName, OtherName>>
    /\ \E a, b \in ReadTimeBodies :
          files = [n \in {PostName, OtherName} |->
                     [ readable |-> TRUE,
                       raw |-> BodyLines(IF n = PostName THEN a ELSE b) ]]
    /\ LoadersIdle

SpecReadTime == InitReadTime /\ [][NextContent]_vars

(***************************************************************************)
(* SpecRequest: two invocations of one handler, each called with any of    *)
(* the incoming requests, on the upstream answers with repository lists up *)
(* to MaxRequestRepos long.                                                *)
(***************************************************************************)
InitRequest ==
    /\ HandlersIdle /\ RenderIdle /\ SlugIdle /\ ContentIdle /\ NavIdle
    /\ req \in [Invocations -> IncomingRequests]

NextRequest ==
    \/ \E h \in Handlers : Invoke("i1", h)
    \/ /\ pc["i1"] # "idle"
       /\ Invoke("i2", kind["i1"])
    \/ \E i \in Invocations : FetchReject(i)
    \/ \E i \in Invocations :
          /\ pc[i] = "fetching"
          /\ \E a \in Responses(kind[i], MaxRequestRepos) : FetchResolve(i, a)
    \/ \E i \in Invocations : JsonReject(i)
    \/ \E i \in Invocations : JsonResolve(i)

SpecRequest == InitRequest /\ [][NextRequest]_vars

(***************************************************************************)
(* SpecNav: the navbar, from a load of any page, over up to MaxHistory     *)
(* pathnames.                                                              *)
(***************************************************************************)
InitNav ==
    /\ StatsIdle /\ RenderIdle /\ SlugIdle /\ ContentIdle
    /\ \E page \in Pages : history = <<page>>
    /\ pending = NoNavigation
    /\ landed = NoNavigation

NextNav ==
    \/ \E to \in NavLinks : ClickNavLink(to)
    \/ ClickBrandLogo
    \/ RouteChangeComplete
    \/ RouteChangeError
    \/ \E page \in Pages : Load(page)

SpecNav == InitNav /\ [][NextNav]_vars

(***************************************************************************)
(* Claims about the stats handlers.                                        *)
(***************************************************************************)
Finished(i) == pc[i] \in {"done", "failed"}

\* C1: every response a stats handler sends carries the header
\* Cache-Control: public, s-maxage=1200, stale-while-revalidate=600
C1_CacheControlOnEveryResponse ==
    \A i \in Invocations :
        res[i].sent =>
            /\ "Cache-Control" \in DOMAIN res[i].headers
            /\ res[i].headers["Cache-Control"] = CacheControl

\* two handlers of different kinds have both sent their response
C1_Witness ==
    /\ res["i1"].sent /\ res["i2"].sent
    /\ kind["i1"] = "user" /\ kind["i2"] = "languages"

\* C2: an invocation issues exactly one GET, whatever its outcome: none
\* before it is called, one from then on, never a second one
C2_ExactlyOneGet ==
    \A i \in Invocations :
        /\ pc[i] = "idle" => Cardinality(GetsOf(i)) = 0
        /\ pc[i] # "idle" =>
              /\ Cardinality(GetsOf(i)) = 1
              /\ \A k \in GetsOf(i) :
                    requests[k].method = "GET" /\ requests[k].url = Url(kind[i])

\* one invocation ended on a rejected fetch, the other on a sent response
C2_Witness ==
    /\ pc["i1"] = "failed" /\ upstream["i1"].outcome = "rejected"
    /\ pc["i2"] = "done"
    /\ Len(requests) = 2

\* C3 (as claimed): when the upstream call fails, the handler sends no
\* response and ends with an error
C3_FailurePropagates ==
    \A i \in Invocations :
        (Finished(i) /\ UpstreamFailed(upstream[i])) =>
            (pc[i] = "failed" /\ ~res[i].sent)

GithubUserFields == {"name", "bio", "username", "avatar_url", "followers"}

IsDouble(x) == DOMAIN x = 1..3 /\ \A k \in 1..3 : x[k] \in Nat

\* C4: when the upstream call succeeds the handler answers 200 with a body
\* of its declared shape
C4_DeclaredShape ==
    \A i \in Invocations :
        (Finished(i) /\ UpstreamSucceeded(upstream[i])) =>
            /\ pc[i] = "done"
            /\ res[i].sent
            /\ res[i].statusCode = 200
            /\ kind[i] = "user" =>
                  LET user == upstream[i].body.val
                      body == res[i].body
                  IN  /\ DOMAIN body = GithubUserFields
                      /\ body.name = user.name
                      /\ body.bio = user.bio
                      /\ body.username = user.login
                      /\ body.avatar_url = user.avatar_url
                      /\ body.followers = user.followers
            /\ kind[i] = "stars" =>
                  /\ DOMAIN res[i].body = {"stars"}
                  /\ res[i].body.stars \in Nat
            /\ kind[i] = "languages" =>
                  \A k \in 1..Len(res[i].body) :
                      /\ DOMAIN res[i].body[k] = {"name", "persentase"}
                      /\ res[i].body[k].name \in STRING
                      /\ IsDouble(res[i].body[k].persentase)

\* a user whose name is null was summarised, and a language list was sent
C4_Witness ==
    /\ pc["i1"] = "done" /\ kind["i1"] = "user"
    /\ UpstreamSucceeded(upstream["i1"])
    /\ res["i1"].body.name = JNull
    /\ pc["i2"] = "done" /\ kind["i2"] = "languages"
    /\ UpstreamSucceeded(upstream["i2"])
    /\ Len(res["i2"].body) = 2

(***************************************************************************)
(* Claims about the numbers the handlers compute (SpecData).               *)
(***************************************************************************)
RECURSIVE SumStarsAt(_, _)
SumStarsAt(S, repositories) ==
    IF S = {} THEN 0
    ELSE LET k == CHOOSE x \in S : TRUE
         IN  repositories[k].stargazers_count + SumStarsAt(S \ {k}, repositories)

\* the stars of the repositories that are not forks, summed
NonForkStars(repositories) ==
    SumStarsAt({k \in 1..Len(repositories) : ~repositories[k].fork}, repositories)

\* C5: stars is the sum of stargazers_count over the repositories that are
\* not forks; an empty list gives 0
C5_StarsIsSumOverNonForks ==
    (pc["i1"] = "done" /\ kind["i1"] = "stars") =>
        LET repositories == upstream["i1"].body.val
        IN  /\ res["i1"].body.stars = NonForkStars(repositories)
            /\ repositories = <<>> => res["i1"].body.stars = 0

\* a list with a starred fork and starred repositories of the user's own
C5_Witness ==
    /\ pc["i1"] = "done" /\ kind["i1"] = "stars"
    /\ res["i1"].body.stars = 5
    /\ \E k \in 1..Len(upstream["i1"].body.val) :
          upstream["i1"].body.val[k].fork
    /\ Len(upstream["i1"].body.val) = MaxDataRepos

\* the repositories the claim counts: not a fork, language not excluded
ClaimCounted(repository) ==
    /\ ~repository.fork
    /\ repository.language \notin
          {JStr("HTML"), JStr("CSS"), JStr("Jupyter Notebook")}

RECURSIVE SumPersentase(_)
SumPersentase(entries) ==
    IF entries = <<>> THEN FZero
    ELSE FAdd(SumPersentase(SubSeq(entries, 1, Len(entries) - 1)),
              entries[Len(entries)].persentase)

\* C6 (as claimed): each persentase is 100 * count / total over the counted
\* repositories, lies in (0, 100], and the values of a non-empty result
\* sum to 100
C6_PersentaseIsShare ==
    (pc["i1"] = "done" /\ kind["i1"] = "languages") =>
        LET counted == SelectSeq(upstream["i1"].body.val, ClaimCounted)
            total == Len(counted)
            count(name) ==
                Cardinality({k \in 1..total :
                                ToPropertyKey(counted[k].language) = name})
            stats == res["i1"].body
        IN  /\ \A k \in 1..Len(stats) :
                  /\ stats[k].persentase = FDiv(100 * count(stats[k].name), total)
                  /\ FLess(FZero, stats[k].persentase)
                  /\ ~FLess(FromNat(100), stats[k].persentase)
            /\ stats # <<>> => SumPersentase(stats) = FromNat(100)

(***************************************************************************)
(* Claims about the slug (SpecSlug).                                       *)
(***************************************************************************)
\* C7 (as claimed): for every filename, the slug of the slug is the slug
C7_IdempotentOnEveryFilename ==
    reslug # NotDerived => reslug = slug

\* name.md, where name holds no ".md"
PlainMdName(f) ==
    /\ Len(f) >= Len(DotMd)
    /\ SubSeq(f, Len(f) - Len(DotMd) + 1, Len(f)) = DotMd
    /\ \A k \in 1..(Len(f) - 2 * Len(DotMd) + 1) :
          SubSeq(f, k, k + Len(DotMd) - 1) # DotMd

\* C7 (amended): for a filename name.md whose name holds no ".md", the
\* slug is name and the slug of the slug is the slug
C7_IdempotentOnPlainNames ==
    (reslug # NotDerived /\ PlainMdName(filename)) =>
        /\ slug \o DotMd = filename
        /\ reslug = slug

\* a name of three characters, dots and an m and a d among them
C7_Witness ==
    /\ reslug # NotDerived
    /\ PlainMdName(filename)
    /\ Len(slug) = 3
    /\ slug[1] = "." /\ slug[3] = "d"

(***************************************************************************)
(* Claims about the renderer (SpecRender).                                 *)
(***************************************************************************)
ExecutableMarkup ==
    { "<script>", "<img onerror=\"alert(1)\">", "<a href=\"javascript:alert(1)\">" }

\* C8 (as claimed): the string handed to the page holds no executable
\* markup coming from the body
C8_NoExecutableMarkup ==
    Rendered => \A k \in 1..Len(html) : html[k] \notin ExecutableMarkup

\* C9 (as claimed): the stages of the claim, in its order, and no other
C9_ClaimedStages ==
    Rendered =>
        ran = << "remark", "gfm", "math", "remark2rehype", "prism", "figure",
                 "raw", "minify", "stringify" >>

StagesInOrder ==
    << "remark", "gfm", "math", "remark2rehype", "prism", "figure",
       "katex", "raw", "minify", "stringify" >>

\* C9 (amended): the stages run in the claimed order with the rendering of
\* math (katex) between the figure stage and the raw HTML stage; at every
\* moment the stages run so far are a prefix of that list
C9_StagesWithKatex ==
    /\ Len(ran) <= Len(StagesInOrder)
    /\ \A k \in 1..Len(ran) : ran[k] = StagesInOrder[k]
    /\ Rendered => ran = StagesInOrder

\* a body with a math expression went through all the stages
C9_Witness ==
    /\ Rendered
    /\ \E k \in 1..Len(md) : md[k] = "math"
    /\ \E k \in 1..Len(html) : html[k] = "<span.katex>"

Readable(name) == name \in DOMAIN files /\ files[name].readable

\* C11: the index loader returns one metadata per entry of the listing, the
\* k-th built from the k-th listed file; while it maps, what it has mapped
\* is built from the first entries of the listing, in order
C11_OneMetadataPerEntry ==
    /\ Len(indexData) <= Len(dir)
    /\ \A k \in 1..Len(indexData) :
          /\ indexData[k] = IndexMetadata(dir[k], files[dir[k]].raw)
          /\ indexData[k].slug = SlugOf(dir[k])
    /\ indexPc = "done" =>
          /\ indexProps.returned
          /\ Len(indexProps.props.data) = Len(dir)
          /\ indexProps.props.data = indexData

\* the loader returned two entries with different titles, listed b.md
\* first
C11_Witness ==
    /\ indexPc = "done"
    /\ dir = <<OtherName, PostName>>
    /\ indexProps.props.data[1].slug = <<"b">>
    /\ indexProps.props.data[2].slug = <<"a">>
    /\ indexProps.props.data[1].title = Undefined
    /\ indexProps.props.data[2].title # Undefined

\* C12: the loaders fail fast: the index loader never maps past an entry
\* it cannot read and returns no props when the directory has one; the
\* per-item loader goes no further than the read of a file it cannot read
C12_FailFast ==
    /\ \A k \in 1..Len(indexData) : Readable(dir[k])
    /\ (\E k \in 1..Len(dir) : ~Readable(dir[k])) =>
          /\ ~indexProps.returned
          /\ indexPc \in {"idle", "mapping", "failed"}
          /\ (indexPc = "mapping" => Len(indexData) < Len(dir))
    /\ (itemPc \notin {"idle", "reading"} /\ ~Readable(itemSlug \o DotMd)) =>
          /\ itemPc = "failed"
          /\ ~itemProps.returned

\* the index loader threw on the second entry after mapping the first, and
\* the per-item loader threw on the read of an unreadable file
C12_Witness ==
    /\ indexPc = "failed"
    /\ Len(indexData) = 1
    /\ ~indexProps.returned
    /\ itemPc = "failed"
    /\ (itemSlug \o DotMd) \in DOMAIN files

\* the slugs the index lists
IndexSlugs ==
    { indexProps.props.data[k].slug : k \in 1..Len(indexProps.props.data) }

\* C14: the routes of getStaticPaths are the slugs the index loader lists:
\* every entry of the directory has a route and a card, every route and
\* every card comes from an entry, and a page is built for no other slug
C14_RoutesAreIndexSlugs ==
    /\ paths.returned =>
          /\ ~paths.fallback
          /\ Len(paths.paths) = Len(dir)
          /\ Routes = { SlugOf(dir[k]) : k \in 1..Len(dir) }
    /\ (paths.returned /\ indexPc = "done") => Routes = IndexSlugs
    /\ itemPc # "idle" => itemSlug \in Routes

\* routes and index are there for a directory of two posts and the page of
\* one of them was asked for
C14_Witness ==
    /\ paths.returned /\ indexPc = "done"
    /\ Routes = { <<"a">>, <<"b">> }
    /\ IndexSlugs = { <<"a">>, <<"b">> }
    /\ itemPc = "done" /\ itemSlug = <<"b">>

\* the body of a file: its blocks, the lines of the front-matter left out
BodyOf(rawMarkdown) ==
    LET lines == SelectSeq(rawMarkdown, LAMBDA line : line[1] = "block")
    IN  [j \in 1..Len(lines) |-> lines[j][2]]

CallOrder == <<"readFileSync", "grayMatter", "countReadingTime", "makrdown2Html">>

\* C18: the per-item loader reads the file, splits it, then renders: its
\* calls are a prefix of that order, the renderer is called once, on the
\* body without the front-matter, and reading time is counted on that body
C18_ReadSplitRender ==
    /\ Len(calls) <= Len(CallOrder)
    /\ \A k \in 1..Len(calls) : calls[k].fn = CallOrder[k]
    /\ itemPc = "done" =>
          LET body == BodyOf(files[itemSlug \o DotMd].raw)
          IN  /\ Len(calls) = Len(CallOrder)
              /\ calls[1].arg = itemSlug \o DotMd
              /\ calls[2].arg = files[itemSlug \o DotMd].raw
              /\ calls[3].arg = body
              /\ calls[4].arg = body
              /\ itemProps.props.parsedMarkdown.htmlString = Parse(body)
              /\ itemProps.props.parsedMarkdown.metadata.readTime
                    = ReadingTime(body).text

\* the page of a post with a front-matter block and a body was built
C18_Witness ==
    /\ itemPc = "done"
    /\ itemRaw[1] = Delimiter
    /\ itemSplit.content = <<"text", "math">>
    /\ itemProps.props.parsedMarkdown.htmlString # <<>>
    /\ itemProps.props.parsedMarkdown.metadata.readTime = <<1, " min read">>

\* C19 (as claimed): the slug getStaticPaths derives from an entry, with
\* ".md" put after it, is the name of that entry, and the per-item loader
\* called with the slug of an entry reads that entry
C19_RouteRoundTrip ==
    /\ paths.returned =>
          \A k \in 1..Len(dir) : SlugOf(dir[k]) \o DotMd = dir[k]
    /\ Len(calls) >= 1 =>
          \A k \in 1..Len(dir) :
              SlugOf(dir[k]) = itemSlug => calls[1].arg = dir[k]

\* C20 (as claimed): two different entries of the directory never get the
\* same slug, in the routes and in the index list
C20_SlugsUnique ==
    /\ paths.returned =>
          \A i, j \in 1..Len(paths.paths) :
              i # j => paths.paths[i].params.slug # paths.paths[j].params.slug
    /\ indexPc = "done" =>
          \A i, j \in 1..Len(indexProps.props.data) :
              i # j => indexProps.props.data[i].slug # indexProps.props.data[j].slug

(***************************************************************************)
(* Claims about the front-matter (SpecMatter).                             *)
(***************************************************************************)
\* the value the front-matter block of a file gives to a key, undefined
\* when the block has no line for it
MatterValue(rawMarkdown, key) ==
    LET lines == { j \in 1..Len(rawMarkdown) :
                     /\ rawMarkdown[j][1] = "field"
                     /\ rawMarkdown[j][2] = key }
    IN  IF lines = {} THEN Undefined
        ELSE rawMarkdown[CHOOSE j \in lines : TRUE][3]

PostRaw == files[PostName].raw

\* the front-matter block of the post is valid YAML
ValidYaml ==
    \A j \in 1..Len(PostRaw) :
        PostRaw[j][1] = "field" => PostRaw[j][3] # NotYaml

\* in the metadata each of the five fields is undefined when the
\* front-matter lacks it and has its front-matter value when present
FieldsPassedThrough ==
    /\ indexPc = "done" =>
          \A f \in MatterFields :
              indexProps.props.data[1][f] = MatterValue(PostRaw, f)
    /\ itemPc = "done" =>
          \A f \in MatterFields :
              itemProps.props.parsedMarkdown.metadata[f] = MatterValue(PostRaw, f)

\* C13 (as claimed): whatever fields the front-matter lacks and whatever
\* fields are malformed, no loader throws, and the fields are passed through
C13_NeverThrows ==
    /\ indexPc # "failed"
    /\ itemPc # "failed"
    /\ FieldsPassedThrough

\* C13 (amended): when the front-matter block is valid YAML, whatever
\* fields it lacks and whatever fields have a value of another type than
\* declared, no loader throws and the fields are passed through; when it
\* is not valid YAML no loader returns
C13_MissingFieldsAreUndefined ==
    /\ ValidYaml =>
          /\ indexPc # "failed"
          /\ itemPc # "failed"
          /\ FieldsPassedThrough
    /\ ~ValidYaml =>
          /\ indexPc # "done" /\ ~indexProps.returned
          /\ itemPc # "done" /\ ~itemProps.returned

\* both loaders returned for a post without title and intro whose
\* categories are malformed
C13_Witness ==
    /\ indexPc = "done" /\ itemPc = "done"
    /\ MatterValue(PostRaw, "title") = Undefined
    /\ MatterValue(PostRaw, "intro") = Undefined
    /\ MatterValue(PostRaw, "categories") = MalformedValue("categories")
    /\ itemProps.props.parsedMarkdown.metadata.title = Undefined
    /\ indexProps.props.data[1].categories = JStr("Go")

MetadataFields ==
    {"title", "slug", "readTime", "dateCreated", "categories", "intro", "useLatex"}

\* the file without the lines of its free-form keys
WithoutFreeForm(rawMarkdown) ==
    SelectSeq(rawMarkdown,
              LAMBDA line : ~(line[1] = "field" /\ line[2] \in FreeFormKeys))

\* C17: the metadata has exactly the seven fields of ContentMetadata, and
\* it is the metadata of the same file without its free-form keys
C17_FreeFormKeysIgnored ==
    /\ indexPc = "done" =>
          LET metadata == indexProps.props.data[1]
          IN  /\ DOMAIN metadata = MetadataFields
              /\ metadata = IndexMetadata(PostName, WithoutFreeForm(PostRaw))
              /\ metadata.slug = <<"a">>
    /\ itemPc = "done" =>
          LET metadata == itemProps.props.parsedMarkdown.metadata
              split == GrayMatter(WithoutFreeForm(PostRaw))
          IN  /\ DOMAIN metadata = MetadataFields
              /\ metadata = ItemMetadata(itemSlug, split.data,
                                         ReadingTime(split.content))
              /\ metadata.slug = <<"a">>

\* both loaders returned for a post whose front-matter has the free-form
\* keys draft and slug
C17_Witness ==
    /\ indexPc = "done" /\ itemPc = "done"
    /\ MatterValue(PostRaw, "draft") # Undefined
    /\ MatterValue(PostRaw, "slug") = JStr("other")
    /\ MatterValue(PostRaw, "title") # Undefined

(***************************************************************************)
(* Claims about reading time (SpecReadTime).                               *)
(***************************************************************************)
\* the words of the body of a file, block by block
RECURSIVE WordsUpTo(_, _)
WordsUpTo(body, k) ==
    IF k = 0 THEN 0 ELSE WordsUpTo(body, k - 1) + WordsIn(body[k])

WordsOfFile(name) ==
    LET body == BodyOf(files[name].raw) IN WordsUpTo(body, Len(body))
Minutes(readTime) == readTime[1]

\* C15: a body with at least as many words gets at least as long a reading
\* time, among the entries of the index and between the per-item page and
\* the entries of the index
C15_ReadTimeMonotonic ==
    /\ indexPc = "done" =>
          \A i, j \in 1..Len(dir) :
              WordsOfFile(dir[i]) <= WordsOfFile(dir[j]) =>
                  Minutes(indexProps.props.data[i].readTime)
                      <= Minutes(indexProps.props.data[j].readTime)
    /\ (indexPc = "done" /\ itemPc = "done") =>
          LET own == itemProps.props.parsedMarkdown.metadata.readTime
              words == WordsOfFile(itemSlug \o DotMd)
          IN  \A j \in 1..Len(dir) :
                  /\ words <= WordsOfFile(dir[j]) =>
                        Minutes(own) <= Minutes(indexProps.props.data[j].readTime)
                  /\ WordsOfFile(dir[j]) <= words =>
                        Minutes(indexProps.props.data[j].readTime) <= Minutes(own)

\* a post of 201 words read in a minute next to one of 300 words read in
\* two, on the index and on the page of the second
C15_Witness ==
    /\ indexPc = "done" /\ itemPc = "done"
    /\ WordsOfFile(PostName) = 201
    /\ WordsOfFile(OtherName) = 300
    /\ indexProps.props.data[1].readTime = <<1, " min read">>
    /\ indexProps.props.data[2].readTime = <<2, " min read">>
    /\ itemSlug = <<"b">>
    /\ itemProps.props.parsedMarkdown.metadata.readTime = <<2, " min read">>

(***************************************************************************)
(* Claims about concurrent invocations of the stats handlers (Spec).       *)
(***************************************************************************)
\* how an invocation of handler h ends when it runs alone and the upstream
\* answers a
Alone(h, a) ==
    IF a.outcome = "rejected" \/ ~a.body.json
    THEN [pc |-> "failed", res |-> NewResponse]
    ELSE LET out == Handle(h, a.body)
         IN  IF out.threw
             THEN [pc |-> "failed", res |-> NewResponse]
             ELSE [pc |-> "done", res |-> Respond(NewResponse, out.body)]

\* C16: however the invocations interleave, an invocation that has ended
\* ended as it does alone on the same upstream answer, one that has not
\* has sent nothing, and each request was issued by the invocation it
\* belongs to, for its own handler
C16_NoSharedState ==
    /\ \A i \in Invocations :
          IF Finished(i)
          THEN [pc |-> pc[i], res |-> res[i]] = Alone(kind[i], upstream[i])
          ELSE res[i] = NewResponse
    /\ \A k \in 1..Len(requests) :
          requests[k].url = Url(kind[requests[k].by])

\* two invocations of the stars handler ended with different answers
C16_Witness ==
    /\ pc["i1"] = "done" /\ pc["i2"] = "done"
    /\ kind["i1"] = "stars" /\ kind["i2"] = "stars"
    /\ res["i1"].body.stars = 0
    /\ res["i2"].body.stars = 3

(***************************************************************************)
(* The two loaders on the same file (SpecContent).                         *)
(***************************************************************************)
\* C21 (as claimed): the metadata the index loader builds for an entry is
\* the metadata the per-item loader builds when given the slug of that
\* entry
C21_LoadersAgree ==
    (indexPc = "done" /\ itemPc = "done") =>
        \A k \in 1..Len(dir) :
            SlugOf(dir[k]) = itemSlug =>
                indexProps.props.data[k]
                    = itemProps.props.parsedMarkdown.metadata

(***************************************************************************)
(* The order of the steps of a stats handler (Spec).                       *)
(***************************************************************************)
StepOrder == <<"fetch", "json", "setHeader", "status", "send">>

Count(step, steps) == Cardinality({ k \in 1..Len(steps) : steps[k] = step })

\* C22: the steps of an invocation come in the order request, body parsed,
\* header set, response sent, cut short by a throw only; nothing is written
\* to the response before the body was obtained, and at most one response
\* is sent, with status 200
C22_StepsInOrder ==
    \A i \in Invocations :
        LET steps == SelectSeq(log[i], LAMBDA step : step # "throw")
        IN  /\ Len(steps) <= Len(StepOrder)
            /\ \A k \in 1..Len(steps) : steps[k] = StepOrder[k]
            /\ Count("throw", log[i]) <= 1
            /\ Count("throw", log[i]) = 1 =>
                  (log[i][Len(log[i])] = "throw" /\ Len(steps) <= 2)
            /\ Count("send", log[i]) <= 1
            /\ Count("send", log[i]) = 1 <=> res[i].sent
            /\ res[i].sent => res[i].statusCode = 200
            /\ pc[i] \in {"idle", "fetching", "parsing", "failed"} =>
                  res[i] = NewResponse

\* one invocation went through all its steps, the other threw after the
\* body was parsed
C22_Witness ==
    /\ log["i1"] = StepOrder
    /\ res["i1"].sent
    /\ log["i2"] = <<"fetch", "json", "throw">>
    /\ upstream["i2"].body.json

(***************************************************************************)
(* The list of the languages handler (SpecData).                           *)
(***************************************************************************)
LanguagesAnswered(i) ==
    /\ kind[i] = "languages"
    /\ pc[i] = "done"
    /\ res[i].sent

\* C23: the list sent by the languages handler is sorted by persentase,
\* largest first, and holds each language name at most once
C23_SortedAndDistinct ==
    \A i \in Invocations :
        LanguagesAnswered(i) =>
            LET stats == res[i].body
            IN  /\ \A k \in 1..(Len(stats) - 1) :
                      ~FLess(stats[k].persentase, stats[k + 1].persentase)
                /\ \A k, l \in 1..Len(stats) :
                      stats[k].name = stats[l].name => k = l

\* the most used language is not the first one the upstream lists: the sort
\* moved it to the front
C23_Witness ==
    \E i \in Invocations :
        /\ LanguagesAnswered(i)
        /\ Len(res[i].body) >= 2
        /\ FLess(res[i].body[2].persentase, res[i].body[1].persentase)
        /\ Get(upstream[i].body.val[1], "language") # JStr(res[i].body[1].name)
        /\ Len(res[i].body) < Len(upstream[i].body.val)

\* C24 (as claimed): every entry is named by the language string of a
\* counted repository, and a repository whose language is null yields no
\* entry and leaves the other percentages as they are without it
C24_NamesAreLanguages ==
    \A i \in Invocations :
        LanguagesAnswered(i) =>
            LET repositories == upstream[i].body.val
                HasLanguage(repo) == Get(repo, "language") # JNull
            IN  /\ \A k \in 1..Len(res[i].body) :
                      \E r \in 1..Len(repositories) :
                          /\ Get(repositories[r], "language")[1] = "string"
                          /\ Get(repositories[r], "language")
                                = JStr(res[i].body[k].name)
                /\ res[i].body
                      = LanguageStats(SelectSeq(repositories, HasLanguage))

\* C25: when no repository is counted the languages handler answers 200
\* with the empty list, and no persentase it ever sends is the outcome of
\* a division by zero
C25_NothingCounted ==
    \A i \in Invocations :
        LanguagesAnswered(i) =>
            /\ SelectSeq(upstream[i].body.val, ClaimCounted) = <<>> =>
                  (res[i].statusCode = 200 /\ res[i].body = <<>>)
            /\ \A k \in 1..Len(res[i].body) :
                  IsDouble(res[i].body[k].persentase)

\* a list of forks and excluded languages only, and the empty list, were
\* both answered
C25_Witness ==
    /\ LanguagesAnswered("i1")
    /\ Len(upstream["i1"].body.val) >= 2
    /\ SelectSeq(upstream["i1"].body.val, ClaimCounted) = <<>>
    /\ res["i1"].body = <<>>
    /\ LanguagesAnswered("i2")
    /\ upstream["i2"].body.val = <<>>
    /\ res["i2"] = Respond(NewResponse, <<>>)

(***************************************************************************)
(* The incoming request of a stats handler (SpecRequest).                  *)
(***************************************************************************)
\* C26: two invocations of a handler that got the same upstream answer end
\* the same way and send the same status, headers and body, whatever the
\* method, query, headers and body of their incoming requests; and every
\* request a handler issues upstream is the one GET of its URL
C26_UpstreamAloneDecides ==
    /\ \A i, j \in Invocations :
          (/\ Finished(i) /\ Finished(j)
           /\ kind[i] = kind[j]
           /\ upstream[i] = upstream[j]) =>
              (pc[i] = pc[j] /\ res[i] = res[j])
    /\ \A k \in 1..Len(requests) :
          /\ requests[k].method = "GET"
          /\ requests[k].url = Url(kind[requests[k].by])
    /\ \A i \in Invocations : Cardinality(GetsOf(i)) <= 1

\* a GET and a POST with a body, which differ in query and headers too, got
\* the same upstream answer and were sent the same response
C26_Witness ==
    /\ pc["i1"] = "done" /\ pc["i2"] = "done"
    /\ upstream["i1"] = upstream["i2"]
    /\ req["i1"].method = "GET" /\ req["i2"].method = "POST"
    /\ req["i1"].query # req["i2"].query
    /\ req["i1"].headers # req["i2"].headers
    /\ req["i1"].body # req["i2"].body
    /\ res["i1"].sent /\ res["i1"] = res["i2"]

(***************************************************************************)
(* The active link of the navbar (SpecNav).                                *)
(***************************************************************************)
ActiveLinks == { to \in NavLinks : isActive(to) }

\* C27: a NavLink is active exactly when the router's pathname is its
\* target, at most one of the two links is active, and after a click on a
\* link or on the brand logo whose route change completed the link of
\* that target is the active one
C27_OneActiveLink ==
    /\ \A to \in NavLinks : isActive(to) <=> history[Len(history)] = to
    /\ Cardinality(ActiveLinks) <= 1
    /\ landed # NoNavigation => ActiveLinks = {landed.to}

\* from the About page the brand logo was clicked and the route change
\* completed: Posts is the active link
C27_Witness ==
    /\ Len(history) >= 2
    /\ history[Len(history) - 1] = About
    /\ landed = [by |-> "BrandLogo", to |-> Root]
    /\ pending = NoNavigation
    /\ ActiveLinks = {Root}

====
